---- MODULE Spec2Model ----
(***************************************************************************)
(* Model of src/src/services/SpeechService.ts: the SpeechService singleton *)
(* (Azure TTS first, Web Speech API as the fallback) together with the     *)
(* three platform objects it drives: the SpeechSDK synthesizer, the        *)
(* HTMLAudioElement it keeps in this.audio, and window.speechSynthesis.    *)
(*                                                                         *)
(* JavaScript runs one task at a time and drains the promise reactions     *)
(* (microtasks) of a task before the next task: every action below is one  *)
(* call of the public API up to its await, one platform callback followed  *)
(* by the continuation of speak() that it resumes, or one microtask that   *)
(* resumes speak() from an await whose promise was settled already.        *)
(* Numbers with a fractional part are kept in tenths (1.0 is 10).          *)
(***************************************************************************)
EXTENDS Integers, Sequences, FiniteSets

\* ------------------------------------------------------------------ bounds
\* speak() calls made in one behaviour
MaxCalls == 2
\* getAvailableVoices() calls made in one behaviour
MaxVoiceCalls == 2

\* ------------------------------------------------------- program constants
\* DEFAULT_CONFIG.subscriptionKey, the placeholder compared at line 46
Sentinel == "your-azure-key"
\* a real subscription key
RealKey == "real-key"
\* a key left empty: SpeechConfig.fromSubscription throws on it (caught at line 97)
EmptyKey == ""
\* an option the caller left out (undefined)
Absent == -1
\* the documented ranges of SpeechOptions, in tenths
RateMin == 5
RateMax == 20
VolumeMin == 0
VolumeMax == 10

Calls == 1..MaxCalls

\* the option values a caller passes, in tenths
Option(r, p, v) == [rate |-> r, pitch |-> p, volume |-> v]
Options ==
    {Option(Absent, Absent, Absent),   \* speak(text)
     Option(10, 15, 0),                \* in range, volume at its lower bound
     Option(30, Absent, Absent)}       \* rate above its range
Request(t, o) == [text |-> t, rate |-> o.rate, pitch |-> o.pitch, volume |-> o.volume]
Requests ==
    {Request("ni hao", o) : o \in Options} \cup {Request("", Option(Absent, Absent, Absent))}
NoRequest == [text |-> "", rate |-> Absent, pitch |-> Absent, volume |-> Absent]

VARIABLES
    subscriptionKey,   \* this.config.subscriptionKey
    speechSynthesis,   \* whether window.speechSynthesis exists
    audio,             \* this.audio and the state of that HTMLAudioElement
    isSpeaking,        \* this.isSpeaking
    synthQ,            \* the utterance queue of window.speechSynthesis; its head is being spoken
    cancelled,         \* utterances removed by cancel() whose end/error event is still to fire
    playAborted,       \* calls whose audio.play() promise pause() rejected; the catch is still to run
    nCalls,            \* speak() calls made so far
    req,               \* the arguments of each speak() call
    pc,                \* where each speak() call is
    caught,            \* the error bound by catch (error) at line 174, per call
    outcome,           \* the error speak() rejected with, per call
    logged,            \* the errors each call passed to console.error, in order
    cloudCalls,        \* the prosody of every speakSsmlAsync request of each call, in order
    localCalls,        \* how many times each call invoked speakWithWebSpeech
    localResult,       \* how the promise of each of those invocations settled, in order
    playPromise,       \* the promise playAudioBuffer returned, per call
    created,           \* whether the call's object URL was created
    revoked,           \* how many times URL.revokeObjectURL ran on the call's URL
    microtasks,        \* the job queue of promise reactions: for each waiting speak()
                       \* call, its job and the jobs still to run before it resumes
    voices,            \* what window.speechSynthesis.getVoices() returns
    voicesNext,        \* the lists the platform is still to load, one per voiceschanged event
    onvoiceschanged,   \* the getAvailableVoices() call whose closure is installed, 0 for none
    nVoiceCalls,       \* getAvailableVoices() calls made so far
    voicesPromise      \* the promise of each getAvailableVoices() call

vars == <<subscriptionKey, speechSynthesis, audio, isSpeaking, synthQ, cancelled,
          playAborted, nCalls, req, pc, caught, outcome, logged, cloudCalls,
          localCalls, localResult, playPromise, created, revoked, microtasks,
          voices, voicesNext, onvoiceschanged, nVoiceCalls, voicesPromise>>

\* the state that only getAvailableVoices() and the voiceschanged event touch
voiceVars == <<voices, voicesNext, onvoiceschanged, nVoiceCalls, voicesPromise>>

\* the state that speak(), stop() and their callbacks touch
speakVars == <<subscriptionKey, audio, isSpeaking, synthQ, cancelled,
               playAborted, nCalls, req, pc, caught, outcome, logged, cloudCalls,
               localCalls, localResult, playPromise, created, revoked, microtasks>>

\* The whole state as one record, so that the methods are functions of it.
State ==
    [subscriptionKey |-> subscriptionKey, speechSynthesis |-> speechSynthesis,
     audio |-> audio, isSpeaking |-> isSpeaking, synthQ |-> synthQ,
     cancelled |-> cancelled, playAborted |-> playAborted, nCalls |-> nCalls,
     req |-> req, pc |-> pc, caught |-> caught, outcome |-> outcome,
     logged |-> logged, cloudCalls |-> cloudCalls, localCalls |-> localCalls,
     localResult |-> localResult,
     playPromise |-> playPromise, created |-> created, revoked |-> revoked,
     microtasks |-> microtasks]

Commit(s) ==
    /\ subscriptionKey' = s.subscriptionKey
    /\ speechSynthesis' = s.speechSynthesis
    /\ audio' = s.audio
    /\ isSpeaking' = s.isSpeaking
    /\ synthQ' = s.synthQ
    /\ cancelled' = s.cancelled
    /\ playAborted' = s.playAborted
    /\ nCalls' = s.nCalls
    /\ req' = s.req
    /\ pc' = s.pc
    /\ caught' = s.caught
    /\ outcome' = s.outcome
    /\ logged' = s.logged
    /\ cloudCalls' = s.cloudCalls
    /\ localCalls' = s.localCalls
    /\ localResult' = s.localResult
    /\ playPromise' = s.playPromise
    /\ created' = s.created
    /\ revoked' = s.revoked
    /\ microtasks' = s.microtasks
    /\ UNCHANGED voiceVars

Range(q) == {q[i] : i \in 1..Len(q)}

\* private audio: HTMLAudioElement | null = null
NoAudio ==
    [exists |-> FALSE, src |-> 0, loaded |-> "no", paused |-> TRUE,
     ended |-> FALSE, playPending |-> FALSE, currentTime |-> 0]

VoiceCalls == 1..MaxVoiceCalls

\* a language tag as the sequence of its characters
ZhCN == <<"z", "h", "-", "C", "N">>
ZhTW == <<"z", "h", "-", "T", "W">>
EnUS == <<"e", "n", "-", "U", "S">>
\* SpeechSynthesisVoice objects of the platform
Xiaoxiao == [name |-> "Xiaoxiao", lang |-> ZhCN]
HsiaoChen == [name |-> "HsiaoChen", lang |-> ZhTW]
Aria == [name |-> "Aria", lang |-> EnUS]
\* the voice lists a platform holds
VoiceLists ==
    {<<>>, <<Aria>>, <<Xiaoxiao>>, <<Aria, Xiaoxiao>>, <<HsiaoChen, Aria, Xiaoxiao>>}

NoPromise == [state |-> "none", value |-> <<>>]

\* no getAvailableVoices() call is made, and the platform has loaded its voices
InitVoicesIdle ==
    /\ voices = <<Aria, Xiaoxiao>>
    /\ voicesNext = <<>>
    /\ onvoiceschanged = 0
    /\ nVoiceCalls = 0
    /\ voicesPromise = [k \in VoiceCalls |-> NoPromise]

Init ==
    /\ InitVoicesIdle
    /\ subscriptionKey \in {Sentinel, RealKey, EmptyKey}
    /\ speechSynthesis \in BOOLEAN
    /\ audio = NoAudio
    /\ isSpeaking = FALSE
    /\ synthQ = <<>>
    /\ cancelled = {}
    /\ playAborted = {}
    /\ nCalls = 0
    /\ req = [c \in Calls |-> NoRequest]
    /\ pc = [c \in Calls |-> "idle"]
    /\ caught = [c \in Calls |-> "none"]
    /\ outcome = [c \in Calls |-> "none"]
    /\ logged = [c \in Calls |-> <<>>]
    /\ cloudCalls = [c \in Calls |-> <<>>]
    /\ localCalls = [c \in Calls |-> 0]
    /\ localResult = [c \in Calls |-> <<>>]
    /\ playPromise = [c \in Calls |-> "none"]
    /\ created = [c \in Calls |-> FALSE]
    /\ revoked = [c \in Calls |-> 0]
    /\ microtasks = <<>>

\* ------------------------------------------------------------ conversions
\* `options.rate || 1`, `options.volume || 1` (line 71): undefined and 0 are falsy
OrOne(v) == IF v = Absent \/ v = 0 THEN 10 ELSE v
\* `options.pitch || 0` (line 71)
OrZero(v) == IF v = Absent \/ v = 0 THEN 0 ELSE v
\* the prosody element of the SSML document (lines 68-76)
ssmlText(r) == [rate |-> OrOne(r.rate), pitch |-> OrZero(r.pitch), volume |-> OrOne(r.volume)]
\* `if (options.rate) utterance.rate = options.rate` (lines 124-126): a new
\* SpeechSynthesisUtterance has rate, pitch and volume 1
IfSet(v) == IF v = Absent \/ v = 0 THEN 10 ELSE v
\* the utterance speakWithWebSpeech builds for attempt att of call c (lines 118-126)
utterance(r, c, att) ==
    [call |-> c, att |-> att, rate |-> IfSet(r.rate), pitch |-> IfSet(r.pitch),
     volume |-> IfSet(r.volume)]

\* ------------------------------------------------------------- the methods
\* a variant that takes any non-empty key for a usable credential
isCloudUsable_NonEmptyKey(s) == s.subscriptionKey # EmptyKey

\* line 46: the credential is compared with the placeholder on every call
isCloudUsable(s) == s.subscriptionKey # Sentinel

\* a variant of stop() without the assignment of line 239
stop_KeepsFlag(s) ==
    LET a == s.audio
        cancel == s.speechSynthesis /\ s.isSpeaking
    IN  [s EXCEPT
           !.audio = IF a.exists
                     THEN [a EXCEPT !.paused = TRUE, !.playPending = FALSE,
                                    !.currentTime = 0, !.ended = FALSE]
                     ELSE a,
           !.playAborted = IF a.exists /\ a.playPending THEN @ \cup {a.src} ELSE @,
           !.synthQ = IF cancel THEN <<>> ELSE @,
           !.cancelled = IF cancel THEN @ \cup Range(s.synthQ) ELSE @]

\* stop(), lines 227-240. pause() on an element whose play() promise is still
\* pending rejects that promise (AbortError) in a later task.
stop(s) ==
    LET a == s.audio
        cancel == s.speechSynthesis /\ s.isSpeaking
    IN  [s EXCEPT
           !.audio = IF a.exists
                     THEN [a EXCEPT !.paused = TRUE, !.playPending = FALSE,
                                    !.currentTime = 0, !.ended = FALSE]
                     ELSE a,
           !.playAborted = IF a.exists /\ a.playPending THEN @ \cup {a.src} ELSE @,
           !.synthQ = IF cancel THEN <<>> ELSE @,
           !.cancelled = IF cancel THEN @ \cup Range(s.synthQ) ELSE @,
           !.isSpeaking = FALSE]

\* isPlaying(), lines 245-247
isPlaying(s) == s.isSpeaking

\* The three completion closures of playAudioBuffer for call c: onended
\* (lines 201-205), onerror (207-211) and the catch of play() (216-220). Each
\* clears the flag, revokes the call's URL and settles the call's promise; a
\* promise that is already settled ignores the later resolve or reject.
playSettled(s, c, how) ==
    [s EXCEPT !.isSpeaking = FALSE,
              !.revoked[c] = @ + 1,
              !.playPromise[c] = IF @ = "pending" THEN how ELSE @]

\* playAudioBuffer(audioData) of call c, lines 189-222. Assigning src restarts
\* the element's load: a play() promise still pending from the previous call is
\* rejected at once, and its catch (of the previous call) runs when this task's
\* code has returned.
playAudioBuffer(s, c) ==
    LET a == s.audio
        s1 == [s EXCEPT
                 !.created[c] = TRUE,
                 !.playPromise[c] = "pending",
                 !.audio = [exists |-> TRUE, src |-> c, loaded |-> "no",
                            paused |-> FALSE, ended |-> FALSE,
                            playPending |-> TRUE, currentTime |-> 0],
                 !.isSpeaking = TRUE]
    IN  IF a.exists /\ a.playPending THEN playSettled(s1, a.src, "rejected") ELSE s1

\* A job of the microtask queue: the job that resumes call c (ticks = 1), or a
\* job of the promise machinery that queues the next job of the chain when it
\* runs (ticks > 1 jobs are left, the last of them resuming the call).
Job(c, k) == [call |-> c, ticks |-> k]

\* The jobs between synthesizeSpeech settling at once and speak() resuming from
\* the await of line 165. The promise of the async function is already
\* fulfilled with null (line 47): one job, the continuation. With an empty key
\* the function returns a rejected promise (lines 50, 97-98): one job adopts it,
\* one rejects the function's own promise, and the third is the continuation.
awaitTicks(s) == IF ~isCloudUsable(s) THEN 1 ELSE 3

\* the promise of attempt att of call c rejected inside speakWithWebSpeech
\* (line 110): speak() is suspended at its await (line 172 or 178) and resumes
\* in a microtask
rejectedAtOnce(s, c, att, err) ==
    [s EXCEPT !.localResult[c] = Append(@, err),
              !.pc[c] = IF att = 1 THEN "local_try" ELSE "local_catch",
              !.microtasks = Append(@, Job(c, 1))]

\* a variant that calls this.stop() before the capability check of lines 109-112
speakWithWebSpeech_StopsFirst(s, c, att) ==
    LET s1 == stop([s EXCEPT !.localCalls[c] = @ + 1])
    IN  IF ~s.speechSynthesis
        THEN rejectedAtOnce(s1, c, att, "Unsupported")
        ELSE [s1 EXCEPT
                !.synthQ = Append(@, utterance(s.req[c], c, att)),
                !.isSpeaking = TRUE,
                !.pc[c] = IF att = 1 THEN "local_try" ELSE "local_catch"]

\* speakWithWebSpeech(text, options) as attempt att of call c, lines 106-157
speakWithWebSpeech(s, c, att) ==
    LET s1 == [s EXCEPT !.localCalls[c] = @ + 1]
    IN  IF ~s.speechSynthesis
        THEN rejectedAtOnce(s1, c, att, "Unsupported")
        ELSE LET s2 == stop(s1)
             IN  [s2 EXCEPT
                    !.synthQ = Append(@, utterance(s.req[c], c, att)),
                    !.isSpeaking = TRUE,
                    !.pc[c] = IF att = 1 THEN "local_try" ELSE "local_catch"]

\* a variant whose `throw error` follows the inner try/catch, so that the error
\* caught at line 174 is rethrown whatever the fallback did
localSettled_AlwaysRethrows(s, c, att, err) ==
    IF att = 1
    THEN IF err = "none"
         THEN [s EXCEPT !.pc[c] = "resolved"]
         ELSE speakWithWebSpeech(
                  [s EXCEPT !.caught[c] = err, !.logged[c] = Append(@, err)], c, 2)
    ELSE [s EXCEPT !.logged[c] = IF err = "none" THEN @ ELSE Append(@, err),
                   !.pc[c] = "rejected",
                   !.outcome[c] = s.caught[c]]

\* speak() resumed by the promise of attempt att of call c (lines 172-183):
\* a resolved promise ends the call; a rejection of the attempt in the try block
\* (att = 1) is caught at line 174, logged, and the local adapter is called
\* again at line 178; a rejection of the attempt in the catch block (att = 2) is
\* logged at line 180 and the error caught at line 174 is rethrown.
localSettled(s, c, att, err) ==
    IF err = "none"
    THEN [s EXCEPT !.pc[c] = "resolved"]
    ELSE IF att = 1
    THEN speakWithWebSpeech(
             [s EXCEPT !.caught[c] = err, !.logged[c] = Append(@, err)], c, 2)
    ELSE [s EXCEPT !.logged[c] = Append(@, err),
                   !.pc[c] = "rejected",
                   !.outcome[c] = s.caught[c]]

\* resolve() (line 144, err = "none") or reject(err) (line 150) of the promise
\* speakWithWebSpeech returned for attempt att of call c, by the utterance's
\* event handler, and the continuation of speak() it resumes
localPromise(s, c, att, err) ==
    localSettled([s EXCEPT !.localResult[c] = Append(@, err)], c, att, err)

\* speak() of call c resumed from the await of line 172 or 178 with the
\* rejection speakWithWebSpeech made at line 110
rejectionResumed(s, c) ==
    localSettled(s, c, IF s.pc[c] = "local_try" THEN 1 ELSE 2,
                 s.localResult[c][Len(s.localResult[c])])

\* utterance.onend (lines 142-145) and utterance.onerror (lines 148-151) of
\* utterance u, followed by the continuation of the speak() call awaiting it
utteranceSettled(s, u, err) ==
    localPromise([s EXCEPT !.isSpeaking = FALSE], u.call, u.att, err)

\* synthesizeSpeech rejected with err (lines 89, 94, 98): speak() catches it at
\* line 174, logs it and calls the local adapter at line 178
cloudRejected(s, c, err) ==
    speakWithWebSpeech(
        [s EXCEPT !.caught[c] = err, !.logged[c] = Append(@, err)], c, 2)

\* speak(text, options) up to its suspension at the await of line 165, as
\* call c. synthesizeSpeech runs synchronously: with a configured key the SDK
\* objects are built and the SSML request is issued (lines 51-80); with the
\* placeholder key it returns null (line 47) and with an empty key the SDK
\* throws and the promise is rejected (lines 97-98), and either result reaches
\* speak() only in a microtask, after the caller's synchronous code.
speak(s, c, r) ==
    LET s1 == [s EXCEPT !.nCalls = c, !.req[c] = r]
    IN  IF isCloudUsable(s) /\ s.subscriptionKey # EmptyKey
        THEN [s1 EXCEPT !.cloudCalls[c] = Append(@, ssmlText(r)),
                        !.pc[c] = "cloud"]
        ELSE [s1 EXCEPT !.pc[c] = "called_not_started",
                        !.microtasks = Append(@, Job(c, awaitTicks(s)))]

\* speak() of call c resumed after the await of line 165 with a result that
\* synthesizeSpeech had at once: null, so the local adapter is awaited (line
\* 172), or the rejection of the SDK's throw, caught at line 174
speakResumed(s, c) ==
    IF ~isCloudUsable(s)
    THEN speakWithWebSpeech(s, c, 1)
    ELSE cloudRejected(s, c, "SdkError")

\* synthesizeSpeech resolved with the audio data (lines 82-86): speak() calls
\* playAudioBuffer at line 169 without awaiting it, and returns
cloudResolved(s, c) ==
    [playAudioBuffer(s, c) EXCEPT !.pc[c] = "resolved"]

\* ------------------------------------------------------------- the actions
Speak(r) ==
    /\ nCalls < MaxCalls
    /\ Commit(speak(State, nCalls + 1, r))

\* a job of the promise machinery: it queues the next job of its chain
PromiseJob ==
    /\ microtasks # <<>> /\ Head(microtasks).ticks > 1
    /\ microtasks' = Append(Tail(microtasks),
                            Job(Head(microtasks).call, Head(microtasks).ticks - 1))
    /\ UNCHANGED <<subscriptionKey, speechSynthesis, audio, isSpeaking, synthQ,
                   cancelled, playAborted, nCalls, req, pc, caught, outcome, logged,
                   cloudCalls, localCalls, localResult, playPromise, created, revoked>>
    /\ UNCHANGED voiceVars

\* the microtask that resumes speak() from the await of line 165: the
\* microtasks run in the order they were queued
SpeakResumed(c) ==
    /\ microtasks # <<>> /\ Head(microtasks) = Job(c, 1)
    /\ pc[c] = "called_not_started"
    /\ Commit(speakResumed([State EXCEPT !.microtasks = Tail(@)], c))

\* the microtask that resumes speak() from the await of line 172 or 178, the
\* promise awaited being rejected already
RejectionResumed(c) ==
    /\ microtasks # <<>> /\ Head(microtasks) = Job(c, 1)
    /\ pc[c] \in {"local_try", "local_catch"}
    /\ Commit(rejectionResumed([State EXCEPT !.microtasks = Tail(@)], c))

Stop ==
    /\ Commit(stop(State))

\* speakSsmlAsync's result callback with SynthesizingAudioCompleted
CloudSuccess(c) ==
    /\ pc[c] = "cloud"
    /\ Commit(cloudResolved(State, c))

\* speakSsmlAsync's result callback with another reason (line 89), or its
\* error callback (line 94)
CloudFailure(c, err) ==
    /\ pc[c] = "cloud"
    /\ Commit(cloudRejected(State, c, err))

\* the element has loaded the blob: a pending play() promise resolves and,
\* unless paused meanwhile, playback begins
AudioCanPlay ==
    /\ audio.exists /\ audio.loaded = "no"
    /\ audio' = [audio EXCEPT !.loaded = "yes", !.playPending = FALSE,
                              !.currentTime = IF audio.paused THEN 0 ELSE 1]
    /\ UNCHANGED <<subscriptionKey, speechSynthesis, isSpeaking, synthQ, cancelled,
                   playAborted, nCalls, req, pc, caught, outcome, logged,
                   cloudCalls, localCalls, localResult, playPromise, created, revoked,
                   microtasks>>
    /\ UNCHANGED voiceVars

\* the blob cannot be decoded: the element fires error (onerror runs) and then
\* rejects a pending play() promise (its catch runs)
AudioLoadError ==
    /\ audio.exists /\ audio.loaded = "no"
    /\ LET s1 == playSettled([State EXCEPT !.audio.loaded = "failed",
                                           !.audio.playPending = FALSE],
                             audio.src, "rejected")
       IN  Commit(IF audio.playPending THEN playSettled(s1, audio.src, "rejected") ELSE s1)

\* play() is refused (autoplay policy): only its promise rejects
AudioPlayNotAllowed ==
    /\ audio.exists /\ audio.playPending
    /\ Commit(playSettled([State EXCEPT !.audio.playPending = FALSE,
                                        !.audio.paused = TRUE],
                          audio.src, "rejected"))

\* the catch of a play() promise that pause() rejected
AudioPlayAborted(c) ==
    /\ c \in playAborted
    /\ Commit(playSettled([State EXCEPT !.playAborted = @ \ {c}], c, "rejected"))

\* playback reaches the end: onended of the installed closure runs
AudioEnded ==
    /\ audio.exists /\ audio.loaded = "yes" /\ ~audio.paused
    /\ Commit(playSettled([State EXCEPT !.audio.ended = TRUE, !.audio.paused = TRUE],
                          audio.src, "resolved"))

\* a decode or device error during playback: onerror of the installed closure runs
AudioPlaybackError ==
    /\ audio.exists /\ audio.loaded = "yes" /\ ~audio.paused
    /\ Commit(playSettled([State EXCEPT !.audio.loaded = "failed"],
                          audio.src, "rejected"))

\* the utterance being spoken ends (err = "none") or fails
UtteranceDone(err) ==
    /\ synthQ # <<>>
    /\ Commit(utteranceSettled([State EXCEPT !.synthQ = Tail(@)], Head(synthQ), err))

\* the event of an utterance that cancel() removed: error (interrupted or
\* canceled) on current platforms, end on older ones
UtteranceCancelled(err) ==
    \E u \in cancelled :
        Commit(utteranceSettled([State EXCEPT !.cancelled = @ \ {u}], u, err))

\* no speak() call is waiting for its microtask
NoMicrotask == microtasks = <<>>

\* the callbacks of the three platform objects: each runs as a task of its
\* own, when the microtasks of the task before it have run
BackendEvent ==
    \/ \E c \in Calls : CloudSuccess(c)
    \/ \E c \in Calls, e \in {"SynthesisFailed", "TransportError"} : CloudFailure(c, e)
    \/ AudioCanPlay
    \/ AudioLoadError
    \/ AudioPlayNotAllowed
    \/ \E c \in Calls : AudioPlayAborted(c)
    \/ AudioEnded
    \/ AudioPlaybackError
    \/ \E e \in {"none", "LocalError"} : UtteranceDone(e)
    \/ \E e \in {"none", "Interrupted"} : UtteranceCancelled(e)

Backend ==
    /\ NoMicrotask
    /\ BackendEvent

Next ==
    \/ \E r \in Requests : Speak(r)
    \/ PromiseJob
    \/ \E c \in Calls : SpeakResumed(c)
    \/ \E c \in Calls : RejectionResumed(c)
    \/ Stop
    \/ Backend

Spec == Init /\ [][Next]_vars

\* the behaviours in which the caller only calls speak() and never stop()
NextSpeakOnly ==
    \/ \E r \in Requests : Speak(r)
    \/ PromiseJob
    \/ \E c \in Calls : SpeakResumed(c)
    \/ \E c \in Calls : RejectionResumed(c)
    \/ Backend

SpecSpeakOnly == Init /\ [][NextSpeakOnly]_vars

\* ------------------------------------------------------- the voice list
\* String.prototype.includes
Includes(s, sub) ==
    \E i \in 1..(Len(s) - Len(sub) + 1) : SubSeq(s, i, i + Len(sub) - 1) = sub

RECURSIVE chineseVoices(_)
\* voices.filter(voice => voice.lang.includes('zh')).map(voice => voice.name),
\* lines 269-271 and 277-279
chineseVoices(vs) ==
    IF vs = <<>> THEN <<>>
    ELSE IF Includes(Head(vs).lang, <<"z", "h">>)
    THEN <<Head(vs).name>> \o chineseVoices(Tail(vs))
    ELSE chineseVoices(Tail(vs))

\* resolve(list) of the promise of call k: a settled promise ignores a later resolve
voicesResolved(p, list) ==
    IF p.state = "pending" THEN [state |-> "resolved", value |-> list] ELSE p

\* getAvailableVoices() as call k, lines 252-284
GetAvailableVoices ==
    /\ nVoiceCalls < MaxVoiceCalls
    /\ LET k == nVoiceCalls + 1
           p == [state |-> "pending", value |-> <<>>]
       IN  /\ nVoiceCalls' = k
           /\ IF ~speechSynthesis
              THEN /\ voicesPromise' = [voicesPromise EXCEPT ![k] = voicesResolved(p, <<>>)]
                   /\ UNCHANGED onvoiceschanged
              ELSE IF Len(voices) = 0
              THEN /\ voicesPromise' = [voicesPromise EXCEPT ![k] = p]
                   /\ onvoiceschanged' = k
              ELSE /\ voicesPromise' = [voicesPromise EXCEPT
                                          ![k] = voicesResolved(p, chineseVoices(voices))]
                   /\ UNCHANGED onvoiceschanged
    /\ UNCHANGED <<voices, voicesNext, speechSynthesis, speakVars>>

\* the platform has loaded a voice list and fires voiceschanged: the installed
\* closure (lines 267-274) runs
VoicesChanged ==
    /\ speechSynthesis
    /\ voicesNext # <<>>
    /\ voices' = Head(voicesNext)
    /\ voicesNext' = Tail(voicesNext)
    /\ voicesPromise' =
          IF onvoiceschanged = 0 THEN voicesPromise
          ELSE [voicesPromise EXCEPT
                  ![onvoiceschanged] = voicesResolved(@, chineseVoices(Head(voicesNext)))]
    /\ UNCHANGED <<onvoiceschanged, nVoiceCalls, speechSynthesis, speakVars>>

\* the service before any speak() call, on a platform that holds any voice
\* list and may still load another
InitVoices ==
    /\ subscriptionKey = Sentinel
    /\ speechSynthesis \in BOOLEAN
    /\ audio = NoAudio
    /\ isSpeaking = FALSE
    /\ synthQ = <<>>
    /\ cancelled = {}
    /\ playAborted = {}
    /\ nCalls = 0
    /\ req = [c \in Calls |-> NoRequest]
    /\ pc = [c \in Calls |-> "idle"]
    /\ caught = [c \in Calls |-> "none"]
    /\ outcome = [c \in Calls |-> "none"]
    /\ logged = [c \in Calls |-> <<>>]
    /\ cloudCalls = [c \in Calls |-> <<>>]
    /\ localCalls = [c \in Calls |-> 0]
    /\ localResult = [c \in Calls |-> <<>>]
    /\ playPromise = [c \in Calls |-> "none"]
    /\ created = [c \in Calls |-> FALSE]
    /\ revoked = [c \in Calls |-> 0]
    /\ microtasks = <<>>
    /\ voices \in VoiceLists
    /\ voicesNext \in {<<>>} \cup {<<l>> : l \in VoiceLists}
    /\ onvoiceschanged = 0
    /\ nVoiceCalls = 0
    /\ voicesPromise = [k \in VoiceCalls |-> NoPromise]

NextVoices ==
    \/ GetAvailableVoices
    \/ VoicesChanged

SpecVoices == InitVoices /\ [][NextVoices]_vars

\* ------------------------------------------------------- observed notions
\* the errors synthesizeSpeech rejects with
CloudErrors == {"SynthesisFailed", "TransportError", "SdkError"}
\* the errors speakWithWebSpeech rejects with
LocalErrors == {"Unsupported", "LocalError", "Interrupted"}
\* the speak() call has been made
Called(c) == pc[c] # "idle"
\* the speak() call has been made and its promise is not settled
InProgress(c) == pc[c] \in {"called_not_started", "cloud", "local_try", "local_catch"}
\* the audio element is producing sound
AudioAudible == audio.exists /\ audio.loaded = "yes" /\ ~audio.paused /\ ~audio.ended
\* the platform synthesizer is producing sound
UtteranceAudible == synthQ # <<>>
\* sound of call c is being produced
Playing(c) ==
    \/ AudioAudible /\ audio.src = c
    \/ UtteranceAudible /\ Head(synthQ).call = c
\* call c has handed audio to a backend for output
AudioStarted(c) == created[c] \/ (speechSynthesis /\ localCalls[c] > 0)

\* ------------------------------------------------------------------ claims

\* C1: every speak() call made while the credential is the placeholder issues
\* no cloud synthesis request and invokes the local adapter instead: no request
\* is ever issued for the call, and once the call has resumed from its await
\* the local adapter has been invoked.
C1_SentinelNeverCloud ==
    \A c \in Calls :
        (Called(c) /\ subscriptionKey = Sentinel)
            => /\ cloudCalls[c] = <<>>
               /\ pc[c] # "called_not_started" => localCalls[c] >= 1

C1_Witness ==
    \E c \in Calls :
        /\ subscriptionKey = Sentinel
        /\ pc[c] = "local_try"
        /\ cloudCalls[c] = <<>>
        /\ localCalls[c] = 1

\* C2: at most one utterance is audible: cloud audio playback and a platform
\* utterance are never in progress at the same time.
C2_OneAudible == ~(AudioAudible /\ UtteranceAudible)

\* C3: when speak(B) is issued while speak(A) is in progress (and the caller
\* never calls stop()), A's audio is stopped and B's is the only one heard:
\* once B has started its audio, no sound of A is produced while A is still in
\* progress.
C3_NewCallSupersedes ==
    \A a, b \in Calls :
        (a < b /\ InProgress(a) /\ AudioStarted(b)) => ~Playing(a)

\* C4: when the cloud adapter fails and the local adapter then succeeds,
\* speak() resolves; the local adapter was invoked once, after the failure, and
\* the cloud error was logged and not propagated.
C4_FallbackResolves ==
    \A c \in Calls :
        (caught[c] \in CloudErrors /\ localResult[c] = <<"none">>)
            => /\ pc[c] = "resolved"
               /\ outcome[c] = "none"
               /\ localCalls[c] = 1
               /\ logged[c] = <<caught[c]>>

C4_Witness ==
    \E c \in Calls :
        /\ caught[c] = "SynthesisFailed"
        /\ Len(cloudCalls[c]) = 1
        /\ localResult[c] = <<"none">>
        /\ pc[c] = "resolved"

\* C5: when both backends fail speak() rejects with the cloud error; when the
\* cloud is unconfigured and the local adapter fails, speak() rejects with the
\* local error.
C5_RejectsWithOriginalError ==
    \A c \in Calls :
        (~InProgress(c) /\ \E i \in 1..Len(localResult[c]) : localResult[c][i] # "none")
            => /\ pc[c] = "rejected"
               /\ outcome[c] = IF Len(cloudCalls[c]) > 0 \/ caught[c] \in CloudErrors
                               THEN caught[c]
                               ELSE localResult[c][1]
               /\ outcome[c] \in (IF subscriptionKey = Sentinel THEN LocalErrors ELSE CloudErrors)

\* C6: when playback of the synthesized audio fails (the promise of
\* playAudioBuffer rejects), speak() catches the error, logs it and invokes the
\* local adapter.
C6_PlaybackErrorFallsBack ==
    \A c \in Calls :
        playPromise[c] = "rejected" => (localCalls[c] >= 1 /\ logged[c] # <<>>)

\* no closure of playAudioBuffer for call c can run any more
PlayOver(c) ==
    /\ c \notin playAborted
    /\ ~(/\ audio.src = c
         /\ \/ audio.loaded = "no"
            \/ audio.playPending
            \/ audio.loaded = "yes" /\ ~audio.paused)

\* C7: the object URL of every playAudioBuffer call is revoked exactly once:
\* never twice, and once when no handler of the call can run any more.
C7_ReleasedExactlyOnce ==
    \A c \in Calls :
        /\ revoked[c] <= 1
        /\ (created[c] /\ PlayOver(c)) => revoked[c] = 1

\* the request satisfies the documented ranges (lines 25-27) and has a text
InRange(v, lo, hi) == v = Absent \/ (lo <= v /\ v <= hi)
Valid(r) ==
    /\ r.text # ""
    /\ InRange(r.rate, RateMin, RateMax)
    /\ InRange(r.pitch, RateMin, RateMax)
    /\ InRange(r.volume, VolumeMin, VolumeMax)

\* C8: speak() with an empty text or an option outside its range fails with a
\* ValidationError before either backend is contacted.
C8_InvalidRequestRejected ==
    \A c \in Calls :
        (Called(c) /\ ~Valid(req[c]))
            => /\ pc[c] = "rejected"
               /\ outcome[c] = "ValidationError"
               /\ cloudCalls[c] = <<>>
               /\ localCalls[c] = 0

\* C9: stop() completes in every reachable state, leaves isPlaying() false, and
\* a second stop() changes nothing.
C9_StopIdempotent ==
    LET s1 == stop(State)
    IN  /\ ~isPlaying(s1)
        /\ stop(s1) = s1

\* stop() ran during the playback of some call: the element is left paused at
\* position zero, the call's promise pending, and a second stop() is the identity
C9_Witness ==
    /\ audio.exists /\ audio.loaded = "yes" /\ audio.paused /\ audio.currentTime = 0
    /\ playPromise[audio.src] = "pending"
    /\ cancelled # {}
    /\ ~isSpeaking
    /\ stop(State) = State

\* C10: after stop() during an in-flight play or local utterance, the in-flight
\* promise settles, and the stopped session causes no further audio output: a
\* paused playback whose promise is pending has an event left that settles it,
\* and a call whose utterance was interrupted queues no new utterance.
C10_StoppedSessionSettles ==
    \A c \in Calls :
        /\ (playPromise[c] = "pending" /\ audio.src = c /\ audio.paused)
              => (c \in playAborted \/ audio.loaded = "no")
        /\ caught[c] = "Interrupted" => ~\E u \in Range(synthQ) : u.call = c

\* C11: on the cloud path speak() resolves only when the playback has ended:
\* a resolved call that played cloud audio has had its playback end naturally
\* (the promise of playAudioBuffer resolved, isSpeaking back to false by onended).
C11_ResolvesAfterPlayback ==
    \A c \in Calls :
        (pc[c] = "resolved" /\ created[c]) => playPromise[c] = "resolved"

\* C12: getAvailableVoices() never rejects and always resolves: a pending call
\* has its closure installed and a voiceschanged event still to come, and on a
\* platform without a synthesizer, or with no voices and none to come, the call
\* has resolved with the empty list.
C12_VoicesAlwaysResolve ==
    \A k \in VoiceCalls :
        /\ voicesPromise[k].state \in {"none", "pending", "resolved"}
        /\ voicesPromise[k].state = "pending"
              => (onvoiceschanged = k /\ voicesNext # <<>>)
        /\ (k <= nVoiceCalls /\ (~speechSynthesis \/ (voices = <<>> /\ voicesNext = <<>>)))
              => voicesPromise[k] = [state |-> "resolved", value |-> <<>>]

\* C13: after stop() returns, in any reachable state, nothing is audible: the
\* audio element is paused at position zero, no utterance is left in the
\* synthesizer's queue, and isPlaying() is false.
C13_StopSilences ==
    LET s1 == stop(State)
    IN  /\ ~isPlaying(s1)
        /\ s1.audio.exists => (s1.audio.paused /\ s1.audio.currentTime = 0)
        /\ s1.synthQ = <<>>

\* C14: every start of audio output while a session is active is preceded, in
\* the same call, by stop(): whenever isSpeaking is set, starting the cloud
\* playback of a call, or a local utterance, gives the state that stop()
\* followed by that start gives.
C14_StartStopsFirst ==
    isSpeaking =>
        \A c \in Calls :
            /\ pc[c] = "cloud" => cloudResolved(State, c) = cloudResolved(stop(State), c)
            /\ speechSynthesis =>
                  \A att \in {1, 2} :
                      speakWithWebSpeech(State, c, att)
                          = speakWithWebSpeech(stop(State), c, att)

\* A cloud playback that has been started and is neither paused, ended nor failed.
AudioInProgress == audio.exists /\ audio.loaded # "failed" /\ ~audio.paused /\ ~audio.ended

\* C15: isPlaying() agrees with the audio output in every reachable state: it
\* is true whenever a playback or an utterance started by the service is
\* audible, and when it is true a playback or an utterance is in progress.
C15_FlagAgreesWithOutput ==
    /\ (AudioAudible \/ UtteranceAudible) => isPlaying(State)
    /\ isPlaying(State) => (AudioInProgress \/ UtteranceAudible)

\* C16: within one speak() call each backend adapter is invoked at most once:
\* the cloud adapter is never retried and the local adapter is not invoked a
\* second time after it has failed in that call.
C16_AdaptersInvokedOnce ==
    \A c \in Calls : Len(cloudCalls[c]) <= 1 /\ localCalls[c] <= 1

\* what stop() and the two backends write: the flag, the audio element, the
\* synthesizer's queue and the events still owed to superseded sessions
Untouched(s) ==
    /\ s.isSpeaking = isSpeaking
    /\ s.audio = audio
    /\ s.synthQ = synthQ
    /\ s.cancelled = cancelled
    /\ s.playAborted = playAborted

\* the state in which the job of call c has been taken off the queue
Dequeued(c) == [State EXCEPT !.microtasks = SelectSeq(@, LAMBDA j : j.call # c)]

\* call c has a job in the microtask queue
Queued(c) == \E i \in 1..Len(microtasks) : microtasks[i].call = c

\* C17: on a platform without speech synthesis the local adapter fails at once
\* with the unsupported-platform error, without calling stop() and without
\* changing isSpeaking or the audio element: this holds for the fallback after
\* a cloud failure and for each continuation of speak() that invokes the
\* adapter or handles its rejection. Every invocation so far has been rejected
\* with that error. With the placeholder credential a call never resolves: it
\* is waiting to resume, or it has rejected with that error.
C17_UnsupportedFailsUntouched ==
    ~speechSynthesis =>
        /\ \A c \in Calls : pc[c] = "cloud" =>
              \A err \in CloudErrors \ {"SdkError"} :
                  LET s1 == cloudRejected(State, c, err)
                  IN  /\ Untouched(s1)
                      /\ s1.localResult[c] = <<"Unsupported">>
                      /\ s1.pc[c] = "local_catch"
        /\ \A c \in Calls : pc[c] \in {"called_not_started", "local_try", "local_catch"} =>
              LET s1 == IF pc[c] = "called_not_started"
                        THEN speakResumed(Dequeued(c), c)
                        ELSE rejectionResumed(Dequeued(c), c)
              IN  /\ Untouched(s1)
                  /\ Range(s1.localResult[c]) = {"Unsupported"}
                  /\ Len(s1.localResult[c]) = s1.localCalls[c]
                  /\ s1.pc[c] \in {"local_try", "local_catch", "rejected"}
        /\ \A c \in Calls :
              /\ Len(localResult[c]) = localCalls[c]
              /\ \A i \in 1..Len(localResult[c]) : localResult[c][i] = "Unsupported"
        /\ \A c \in Calls : (Called(c) /\ subscriptionKey = Sentinel) =>
              /\ pc[c] \in {"called_not_started", "local_try", "local_catch", "rejected"}
              /\ pc[c] = "rejected" => outcome[c] = "Unsupported"
              /\ pc[c] # "rejected" => Queued(c)

C17_Witness ==
    /\ ~speechSynthesis
    /\ subscriptionKey = Sentinel
    /\ ~isSpeaking /\ ~audio.exists
    /\ \E c \in Calls :
          /\ pc[c] = "rejected"
          /\ localCalls[c] >= 1
          /\ Range(localResult[c]) = {"Unsupported"}
          /\ outcome[c] = "Unsupported"

\* the value the caller asked for: the documented default 1.0 when absent
Requested(v) == IF v = Absent THEN 10 ELSE v

\* C18: for every in-range request the rate, pitch and volume handed to a
\* backend equal the requested values, 1.0 standing in only for an absent
\* option: every utterance queued for the call carries them, and every SSML
\* request of the call carries the requested rate and volume.
C18_OptionsReachBackends ==
    \A c \in Calls :
        Valid(req[c]) =>
            /\ \A u \in Range(synthQ) \cup cancelled :
                  u.call = c =>
                      /\ u.rate = Requested(req[c].rate)
                      /\ u.pitch = Requested(req[c].pitch)
                      /\ u.volume = Requested(req[c].volume)
            /\ \A i \in 1..Len(cloudCalls[c]) :
                  /\ cloudCalls[c][i].rate = Requested(req[c].rate)
                  /\ cloudCalls[c][i].volume = Requested(req[c].volume)

====
